---- MODULE Spec2Model ----
(***************************************************************************)
(* Model of dummypypi2's tolerance configuration (src/dummypypi2/config.py) *)
(* as one caller thread drives it: the module globals RTOL and ATOL, the    *)
(* single module-level NumericalToleranceContextManager instance, the       *)
(* permanent setter, and the caller's stack of open `with` blocks.          *)
(*                                                                          *)
(* Next to it: the _config package's lazy attribute lookup, the display     *)
(* setter that installs a colour palette in matplotlib's rcParams, and      *)
(* divide. Each has a specification of its own over the same variables.     *)
(*                                                                          *)
(* Tolerances are exact multiples of 1E-8 (1E-5 is 1000, 1E-3 is 100000);   *)
(* the numbers compared by is_close are exact multiples of 1E-5.            *)
(***************************************************************************)
EXTENDS Integers, Sequences, FiniteSets

\* ------------------------------------------------------------------ values

\* Python's None, the default of every rtol/atol keyword.
None == -1

\* An attribute of the context manager that no method has assigned yet.
Unset == -2

\* RTOL, ATOL = 1E-5, 1E-8 in units of 1E-8.
DefaultRTOL == 1000

DefaultATOL == 1

\* Deepest nesting of `with` blocks the caller opens.
MaxDepth == 2

\* Tolerances the caller passes: rtol=1E-4 and atol=1E-3.
RtolValues == {10000}

AtolValues == {100000}

\* Pairs <<a, b>> the caller compares, in units of 1E-5: 0.1 with 0.10001,
\* and 0.1 with 0.1001.
Pairs == { <<10000, 10001>>, <<10000, 10010>> }

RtolArgs == RtolValues \cup {None}

AtolArgs == AtolValues \cup {None}

\* First positional argument of set_algo_options: absent, 'default', another
\* str, or an object that is no str.
NoShortcut == [kind |-> "none", text |-> ""]

Shortcuts ==
    { NoShortcut,
      [kind |-> "str", text |-> "default"],
      [kind |-> "str", text |-> "foo"],
      [kind |-> "int", text |-> "42"] }

\* The caller's variable h holds no handle yet.
NoHandle == [rtol |-> Unset, atol |-> Unset]

VARIABLES
    RTOL,      \* module global RTOL
    ATOL,      \* module global ATOL
    cm,        \* attributes of _tolerance_context_manager
    stack,     \* the caller's open `with` blocks, outermost first
    held,      \* the arguments of the algo_options call whose result the caller keeps in h
    err,       \* an exception is propagating out of the current `with` body
    last,      \* the operation just performed, as the caller observed it
    mpl,       \* `import matplotlib` succeeds in this environment
    rcParams,  \* the colours of matplotlib's rcParams['axes.prop_cycle']
    named      \* the palette of the latest set_display_options call that installed one

vars == <<RTOL, ATOL, cm, stack, held, err, last, mpl, rcParams, named>>

\* What the tolerance operations never touch.
display == <<mpl, rcParams, named>>

\* ------------------------------------------------------- config.py as operators

\* The two globals as one value.
Store(r, a) == [RTOL |-> r, ATOL |-> a]

\* _set_tolerance with an absent atol taken for the default instead of
\* "leave alone".
set_tolerance_atol_default(st, rtol, atol) ==
    [RTOL |-> IF rtol # None THEN rtol ELSE st.RTOL,
     ATOL |-> IF atol # None THEN atol ELSE DefaultATOL]

\* _NumericalToleranceBase._set_tolerance
set_tolerance(st, rtol, atol) ==
    [RTOL |-> IF rtol # None THEN rtol ELSE st.RTOL,
     ATOL |-> IF atol # None THEN atol ELSE st.ATOL]

\* _NumericalToleranceBase._save_current_tolerance
save_current_tolerance(st) == <<st.RTOL, st.ATOL>>

\* NumericalToleranceContextManager.__call__: returns self, reconfigured.
cm_call(self, rtol, atol) ==
    [self EXCEPT !.rtol = rtol, !.atol = atol]

\* __enter__ that takes its snapshot only the first time it runs.
cm_enter_first_snapshot(self, st) ==
    LET saved == save_current_tolerance(st)
        first == self.prev_rtol = Unset
    IN  [self  |-> IF first
                   THEN [self EXCEPT !.prev_rtol = saved[1], !.prev_atol = saved[2]]
                   ELSE self,
         store |-> set_tolerance(st, self.rtol, self.atol)]

\* __enter__ that forwards rtol only: self._set_tolerance(rtol=self._rtol).
cm_enter_rtol_only(self, st) ==
    LET saved == save_current_tolerance(st)
    IN  [self  |-> [self EXCEPT !.prev_rtol = saved[1], !.prev_atol = saved[2]],
         store |-> set_tolerance(st, self.rtol, None)]

\* __enter__ that uses its overrides up: they are None once applied.
cm_enter_consume(self, st) ==
    LET saved == save_current_tolerance(st)
    IN  [self  |-> [self EXCEPT !.prev_rtol = saved[1], !.prev_atol = saved[2],
                                !.rtol = None, !.atol = None],
         store |-> set_tolerance(st, self.rtol, self.atol)]

\* __enter__ that takes no snapshot, leaving that to __call__.
cm_enter_no_snapshot(self, st) ==
    [self  |-> self,
     store |-> set_tolerance(st, self.rtol, self.atol)]

\* NumericalToleranceContextManager.__enter__
cm_enter(self, st) ==
    LET saved == save_current_tolerance(st)
    IN  [self  |-> [self EXCEPT !.prev_rtol = saved[1], !.prev_atol = saved[2]],
         store |-> set_tolerance(st, self.rtol, self.atol)]

\* __exit__ that restores RTOL and forgets ATOL.
cm_exit_rtol_only(self, st) ==
    [store |-> [RTOL |-> self.prev_rtol, ATOL |-> st.ATOL],
     ret   |-> None]

\* __exit__ that puts back only the tolerances the block overrode.
cm_exit_overridden_only(self, st) ==
    [store |-> [RTOL |-> IF self.rtol # None THEN self.prev_rtol ELSE st.RTOL,
                ATOL |-> IF self.atol # None THEN self.prev_atol ELSE st.ATOL],
     ret   |-> None]

\* __exit__ that ends with `return True`.
cm_exit_returns_true(self, st) ==
    [store |-> [RTOL |-> self.prev_rtol, ATOL |-> self.prev_atol],
     ret   |-> 1]

\* NumericalToleranceContextManager.__exit__: assigns both globals and
\* returns None.
cm_exit(self, st) ==
    [store |-> [RTOL |-> self.prev_rtol, ATOL |-> self.prev_atol],
     ret   |-> None]

\* The `with` statement swallows the exception iff __exit__ returns a true
\* value; None is false.
Truthy(v) == v # None /\ v # 0

\* __call__ with the 'default' reset placed after the keyword overrides.
setter_call_default_last(st, shortcut, rtol, atol) ==
    IF shortcut.kind = "none"
    THEN [store |-> set_tolerance(st, rtol, atol), raised |-> "none"]
    ELSE IF shortcut.kind # "str"
    THEN [store |-> st, raised |-> "ValueError"]
    ELSE IF shortcut.text = "default"
    THEN [store  |-> set_tolerance(set_tolerance(st, rtol, atol),
                                   DefaultRTOL, DefaultATOL),
          raised |-> "none"]
    ELSE [store |-> set_tolerance(st, rtol, atol), raised |-> "none"]

\* __call__ with the isinstance check placed after the keyword overrides.
setter_call_check_last(st, shortcut, rtol, atol) ==
    IF shortcut.kind = "none"
    THEN [store |-> set_tolerance(st, rtol, atol), raised |-> "none"]
    ELSE IF shortcut.kind # "str"
    THEN [store |-> set_tolerance(st, rtol, atol), raised |-> "ValueError"]
    ELSE IF shortcut.text = "default"
    THEN [store  |-> set_tolerance(set_tolerance(st, DefaultRTOL, DefaultATOL),
                                   rtol, atol),
          raised |-> "none"]
    ELSE [store |-> set_tolerance(st, rtol, atol), raised |-> "none"]

\* NumericalToleranceSetter.__call__
setter_call(st, shortcut, rtol, atol) ==
    IF shortcut.kind = "none"
    THEN [store |-> set_tolerance(st, rtol, atol), raised |-> "none"]
    ELSE IF shortcut.kind # "str"
    THEN [store |-> st, raised |-> "ValueError"]
    ELSE IF shortcut.text = "default"
    THEN [store  |-> set_tolerance(set_tolerance(st, DefaultRTOL, DefaultATOL),
                                   rtol, atol),
          raised |-> "none"]
    ELSE [store |-> set_tolerance(st, rtol, atol), raised |-> "none"]

Abs(x) == IF x < 0 THEN -x ELSE x

\* is_close(a, b): abs(a - b) <= ATOL + RTOL * abs(b), with a and b in units
\* of 1E-5 and the tolerances in units of 1E-8. Both sides are divided by
\* 1E-8; the left one is then an integer, so the quotient may be floored.
is_close(st, a, b) ==
    Abs(a - b) * 1000 <= st.ATOL + ((st.RTOL * Abs(b)) \div 100000)

\* Attribute names looked up on the dummypypi2._config package.
FacadeNames == {"RTOL", "ATOL", "rtol"}

\* _config.__getattr__ as `from .algo import RTOL, ATOL` would behave: the
\* values bound when the package was imported.
facade_getattr_import_time(st, name) ==
    IF name = "RTOL" THEN [val |-> DefaultRTOL, raised |-> "none"]
    ELSE IF name = "ATOL" THEN [val |-> DefaultATOL, raised |-> "none"]
    ELSE [val |-> None, raised |-> "AttributeError"]

\* _config.__getattr__(name): algo.RTOL and algo.ATOL are read at each lookup.
facade_getattr(st, name) ==
    IF name = "RTOL" THEN [val |-> st.RTOL, raised |-> "none"]
    ELSE IF name = "ATOL" THEN [val |-> st.ATOL, raised |-> "none"]
    ELSE [val |-> None, raised |-> "AttributeError"]

\* ----------------------------------------------------------------- divide

\* Largest magnitude of the integers passed to divide.
MaxOperand == 6

Operands == (0 - MaxOperand) .. MaxOperand

RECURSIVE Gcd(_, _)
Gcd(x, y) == IF y = 0 THEN x ELSE Gcd(y, x % y)

\* n / d as a fraction in lowest terms with a positive denominator.
Quotient(n, d) ==
    LET g == Gcd(Abs(n), Abs(d))
        sign == IF d < 0 THEN -1 ELSE 1
    IN  [num |-> sign * (n \div g), den |-> sign * (d \div g)]

\* divide with Python's own error for a zero denominator left to propagate.
divide_unchecked(n, d) ==
    IF d = 0
    THEN [raised |-> "ZeroDivisionError", num |-> 0, den |-> 1]
    ELSE [raised |-> "none", num |-> Quotient(n, d).num, den |-> Quotient(n, d).den]

\* divide(numerator, denominator): ValueError for a zero denominator,
\* otherwise the true quotient.
divide(n, d) ==
    IF d = 0
    THEN [raised |-> "ValueError", num |-> 0, den |-> 1]
    ELSE [raised |-> "none", num |-> Quotient(n, d).num, den |-> Quotient(n, d).den]

\* ---------------------------------------------------------------- display

CLR_MATPLOTLIB ==
    << "#1f77b4", "#ff7f0e", "#2ca02c", "#d62728", "#9467bd",
       "#8c564b", "#e377c2", "#7f7f7f", "#bcbd22", "#17becf" >>

CLR_MATPLOTLIB_LEGACY == << "b", "g", "r", "c", "m", "y", "k" >>

CLR_TABLEAU_10 ==
    << "#4E79A7", "#F28E2B", "#E15759", "#76B7B2", "#59A14F",
       "#EDC948", "#B07AA1", "#FF9DA7", "#9C755F", "#BAB0AC" >>

\* color_cycle=None.
NoPalette == ""

\* What rcParams['axes.prop_cycle'] holds before this package writes it.
InitialCycle == << "initial" >>

\* Values callers pass as color_cycle; "viridis" is not a key of color_dict.
Selectors == {NoPalette, "matplotlib", "matplotlib_legacy", "tableau_10", "viridis"}

\* color_dict with two palettes under each other's key.
color_dict_swapped ==
    [k \in {"matplotlib", "matplotlib_legacy", "tableau_10"} |->
        IF k = "matplotlib" THEN CLR_MATPLOTLIB
        ELSE IF k = "matplotlib_legacy" THEN CLR_TABLEAU_10
        ELSE CLR_MATPLOTLIB_LEGACY]

\* color_dict of DisplayOptionsSetter.__call__
color_dict ==
    [k \in {"matplotlib", "matplotlib_legacy", "tableau_10"} |->
        IF k = "matplotlib" THEN CLR_MATPLOTLIB
        ELSE IF k = "matplotlib_legacy" THEN CLR_MATPLOTLIB_LEGACY
        ELSE CLR_TABLEAU_10]

\* __call__ with color_dict.get(color_cycle, CLR_MATPLOTLIB) for the lookup.
display_call_fallback(rc, available, color_cycle) ==
    IF color_cycle = NoPalette
    THEN [rc |-> rc, raised |-> "none"]
    ELSE IF ~available
    THEN [rc |-> rc, raised |-> "ImportWarning"]
    ELSE IF color_cycle \notin DOMAIN color_dict
    THEN [rc |-> CLR_MATPLOTLIB, raised |-> "none"]
    ELSE [rc |-> color_dict[color_cycle], raised |-> "none"]

\* __call__ without the try/except around the import.
display_call_no_except(rc, available, color_cycle) ==
    IF color_cycle = NoPalette
    THEN [rc |-> rc, raised |-> "none"]
    ELSE IF ~available
    THEN [rc |-> rc, raised |-> "ModuleNotFoundError"]
    ELSE IF color_cycle \notin DOMAIN color_dict
    THEN [rc |-> rc, raised |-> "KeyError"]
    ELSE [rc |-> color_dict[color_cycle], raised |-> "none"]

\* DisplayOptionsSetter.__call__: nothing for None; otherwise the import
\* comes first (ImportError becomes ImportWarning), then the color_dict
\* lookup (KeyError for an unknown key), then the assignment to rcParams.
display_call(rc, available, color_cycle) ==
    IF color_cycle = NoPalette
    THEN [rc |-> rc, raised |-> "none"]
    ELSE IF ~available
    THEN [rc |-> rc, raised |-> "ImportWarning"]
    ELSE IF color_cycle \notin DOMAIN color_dict
    THEN [rc |-> rc, raised |-> "KeyError"]
    ELSE [rc |-> color_dict[color_cycle], raised |-> "none"]

\* ------------------------------------------------------------------ state

\* What `last` holds when an operation does not use a field.
Blank ==
    [op |-> "init", shortcut |-> NoShortcut, rtol |-> None, atol |-> None,
     kept_RTOL |-> TRUE, kept_ATOL |-> TRUE, raised |-> "none",
     ent_RTOL |-> Unset, ent_ATOL |-> Unset, depth |-> 0,
     nested |-> FALSE, setin |-> FALSE, on_err |-> FALSE, stale |-> FALSE,
     a |-> 0, b |-> 0, ret |-> FALSE, after_exit |-> FALSE,
     name |-> "", val |-> None,
     after_call |-> FALSE, moved |-> FALSE, via_held |-> FALSE, again |-> FALSE,
     in_RTOL |-> Unset, in_ATOL |-> Unset,
     selector |-> NoPalette, kept_cycle |-> TRUE,
     n |-> 0, d |-> 0, num |-> 0, den |-> 1]

InitTolerance ==
    /\ RTOL = DefaultRTOL
    /\ ATOL = DefaultATOL
    /\ cm = [rtol |-> Unset, atol |-> Unset, prev_rtol |-> Unset, prev_atol |-> Unset]
    /\ stack = <<>>
    /\ held = NoHandle
    /\ err = FALSE
    /\ last = Blank

\* The module just imported, in an environment that has matplotlib.
Init ==
    /\ InitTolerance
    /\ mpl = TRUE
    /\ rcParams = InitialCycle
    /\ named = NoPalette

\* The module just imported, matplotlib installed or not.
InitAnyEnvironment ==
    /\ InitTolerance
    /\ mpl \in BOOLEAN
    /\ rcParams = InitialCycle
    /\ named = NoPalette

Depth == Len(stack)

\* The innermost open block has had a permanent set in its body.
MarkSet(s) ==
    IF Len(s) = 0 THEN s ELSE [s EXCEPT ![Len(s)].setin = TRUE]

\* set_algo_options(shortcut, rtol=rtol, atol=atol)
SetAlgoOptions(shortcut, rtol, atol) ==
    /\ ~err
    /\ LET out == setter_call(Store(RTOL, ATOL), shortcut, rtol, atol)
       IN  /\ RTOL' = out.store.RTOL
           /\ ATOL' = out.store.ATOL
           /\ stack' = IF out.raised = "none" THEN MarkSet(stack) ELSE stack
           /\ last' = [Blank EXCEPT !.op = "set_algo_options",
                                    !.shortcut = shortcut,
                                    !.rtol = rtol, !.atol = atol,
                                    !.kept_RTOL = (out.store.RTOL = RTOL),
                                    !.kept_ATOL = (out.store.ATOL = ATOL),
                                    !.raised = out.raised,
                                    !.after_call = (last.op = "algo_options")]
    /\ UNCHANGED <<cm, held, err>>
    /\ UNCHANGED display

\* The innermost open block has had a scope entered in its body.
MarkNested(s) ==
    IF Len(s) = 0 THEN s ELSE [s EXCEPT ![Len(s)].nested = TRUE]

\* The caller's record of a block it has just entered: the globals as they
\* were when the `with` statement began.
Frame(r, a) == [ent_RTOL |-> r, ent_ATOL |-> a, nested |-> FALSE, setin |-> FALSE]

\* The stack once its innermost block is left: a permanent set made in that
\* block was made in the body of the enclosing one too.
Pop(s) ==
    LET top  == s[Len(s)]
        rest == SubSeq(s, 1, Len(s) - 1)
    IN  IF Len(rest) = 0 \/ ~top.setin THEN rest
        ELSE [rest EXCEPT ![Len(rest)].setin = TRUE]

\* h = algo_options(rtol=rtol, atol=atol): the shared instance is
\* reconfigured and returned.
AlgoOptions(rtol, atol) ==
    /\ ~err
    /\ cm' = cm_call(cm, rtol, atol)
    /\ held' = [rtol |-> rtol, atol |-> atol]
    /\ last' = [Blank EXCEPT !.op = "algo_options", !.rtol = rtol, !.atol = atol]
    /\ UNCHANGED <<RTOL, ATOL, stack, err>>
    /\ UNCHANGED display

\* `with algo_options(rtol=rtol, atol=atol):` reaches its body: the call,
\* then __enter__ on what it returned.
With(rtol, atol) ==
    /\ ~err
    /\ Depth < MaxDepth
    /\ LET out == cm_enter(cm_call(cm, rtol, atol), Store(RTOL, ATOL))
       IN  /\ cm' = out.self
           /\ RTOL' = out.store.RTOL
           /\ ATOL' = out.store.ATOL
           /\ last' = [Blank EXCEPT !.op = "with", !.rtol = rtol, !.atol = atol,
                                    !.kept_RTOL = (out.store.RTOL = RTOL),
                                    !.kept_ATOL = (out.store.ATOL = ATOL),
                                    !.depth = Depth + 1]
    /\ stack' = Append(MarkNested(stack), Frame(RTOL, ATOL))
    /\ UNCHANGED <<held, err>>
    /\ UNCHANGED display

\* The caller's previous statement was a set_algo_options call that changed
\* a global, and the one before it the algo_options call that returned h.
SetSinceCall ==
    /\ last.op = "set_algo_options" /\ last.after_call
    /\ ~(last.kept_RTOL /\ last.kept_ATOL)

\* The caller's previous statement was a `with h:` block with an empty body.
LeftHeldBlock == last.op = "exit" /\ last.via_held

\* `with h:` reaches its body, h being the handle kept from an earlier
\* algo_options call: __enter__ alone.
EnterHeld ==
    /\ ~err
    /\ Depth < MaxDepth
    /\ held # NoHandle
    /\ LET out == cm_enter(cm, Store(RTOL, ATOL))
       IN  /\ cm' = out.self
           /\ RTOL' = out.store.RTOL
           /\ ATOL' = out.store.ATOL
           /\ last' = [Blank EXCEPT !.op = "enter",
                                    !.rtol = held.rtol, !.atol = held.atol,
                                    !.kept_RTOL = (out.store.RTOL = RTOL),
                                    !.kept_ATOL = (out.store.ATOL = ATOL),
                                    !.depth = Depth + 1,
                                    !.stale = (held.rtol # cm.rtol \/ held.atol # cm.atol),
                                    !.moved = SetSinceCall,
                                    !.again = LeftHeldBlock,
                                    !.in_RTOL = IF LeftHeldBlock THEN last.in_RTOL ELSE Unset,
                                    !.in_ATOL = IF LeftHeldBlock THEN last.in_ATOL ELSE Unset]
    /\ stack' = Append(MarkNested(stack), Frame(RTOL, ATOL))
    /\ UNCHANGED <<held, err>>
    /\ UNCHANGED display

\* What the caller sees of the block it leaves.
Left(onErr) ==
    LET top == stack[Depth]
    IN  [Blank EXCEPT !.op = "exit",
                      !.kept_RTOL = (cm_exit(cm, Store(RTOL, ATOL)).store.RTOL = RTOL),
                      !.kept_ATOL = (cm_exit(cm, Store(RTOL, ATOL)).store.ATOL = ATOL),
                      !.ent_RTOL = top.ent_RTOL, !.ent_ATOL = top.ent_ATOL,
                      !.depth = Depth, !.nested = top.nested,
                      !.setin = top.setin, !.on_err = onErr,
                      !.via_held = (last.op = "enter"),
                      !.again = (last.op = "enter" /\ last.again),
                      !.moved = (last.op = "enter" /\ last.moved),
                      !.in_RTOL = IF last.op = "enter" THEN RTOL ELSE Unset,
                      !.in_ATOL = IF last.op = "enter" THEN ATOL ELSE Unset]

\* The innermost `with` body runs to its end: __exit__(None, None, None).
Exit ==
    /\ ~err
    /\ Depth > 0
    /\ LET out == cm_exit(cm, Store(RTOL, ATOL))
       IN  /\ RTOL' = out.store.RTOL
           /\ ATOL' = out.store.ATOL
    /\ stack' = Pop(stack)
    /\ last' = Left(FALSE)
    /\ UNCHANGED <<cm, held, err>>
    /\ UNCHANGED display

\* An exception leaves the innermost `with` body: __exit__(type, value, tb);
\* the exception goes on unless __exit__ returns a true value.
ExitOnError ==
    /\ err
    /\ Depth > 0
    /\ LET out == cm_exit(cm, Store(RTOL, ATOL))
       IN  /\ RTOL' = out.store.RTOL
           /\ ATOL' = out.store.ATOL
           /\ err' = ~Truthy(out.ret)
    /\ stack' = Pop(stack)
    /\ last' = Left(TRUE)
    /\ UNCHANGED <<cm, held>>
    /\ UNCHANGED display

\* The code of a `with` body raises.
Raise ==
    /\ ~err
    /\ Depth > 0
    /\ err' = TRUE
    /\ last' = [Blank EXCEPT !.op = "raise"]
    /\ UNCHANGED <<RTOL, ATOL, cm, stack, held>>
    /\ UNCHANGED display

\* The exception reaches an except clause: of an enclosing body, or of the
\* caller once every block is left.
Catch ==
    /\ err
    /\ err' = FALSE
    /\ last' = [Blank EXCEPT !.op = "catch"]
    /\ UNCHANGED <<RTOL, ATOL, cm, stack, held>>
    /\ UNCHANGED display

\* is_close(p[1], p[2]); called straight after a block was left, the caller
\* still knows what the globals were when that block was entered.
CallIsClose(p) ==
    /\ ~err
    /\ last' = IF last.op = "exit"
               THEN [Blank EXCEPT !.op = "is_close", !.a = p[1], !.b = p[2],
                                  !.ret = is_close(Store(RTOL, ATOL), p[1], p[2]),
                                  !.after_exit = TRUE,
                                  !.ent_RTOL = last.ent_RTOL,
                                  !.ent_ATOL = last.ent_ATOL,
                                  !.nested = last.nested]
               ELSE [Blank EXCEPT !.op = "is_close", !.a = p[1], !.b = p[2],
                                  !.ret = is_close(Store(RTOL, ATOL), p[1], p[2])]
    /\ UNCHANGED <<RTOL, ATOL, cm, stack, held, err>>
    /\ UNCHANGED display

\* getattr(dummypypi2._config, name)
ReadFacade(name) ==
    /\ ~err
    /\ LET out == facade_getattr(Store(RTOL, ATOL), name)
       IN  last' = [Blank EXCEPT !.op = "getattr", !.name = name,
                                 !.val = out.val, !.raised = out.raised]
    /\ UNCHANGED <<RTOL, ATOL, cm, stack, held, err>>
    /\ UNCHANGED display

\* set_display_options(color_cycle=color_cycle)
SetDisplayOptions(color_cycle) ==
    /\ ~err
    /\ LET out == display_call(rcParams, mpl, color_cycle)
       IN  /\ rcParams' = out.rc
           /\ named' = IF color_cycle # NoPalette /\ out.raised = "none"
                       THEN color_cycle ELSE named
           /\ last' = [Blank EXCEPT !.op = "set_display_options",
                                    !.selector = color_cycle,
                                    !.raised = out.raised,
                                    !.kept_cycle = (out.rc = rcParams)]
    /\ UNCHANGED <<RTOL, ATOL, cm, stack, held, err, mpl>>

\* dp.divide(n, d)
Divide(n, d) ==
    /\ ~err
    /\ LET out == divide(n, d)
       IN  last' = [Blank EXCEPT !.op = "divide", !.n = n, !.d = d,
                                 !.raised = out.raised,
                                 !.num = out.num, !.den = out.den]
    /\ UNCHANGED <<RTOL, ATOL, cm, stack, held, err>>
    /\ UNCHANGED display

Next ==
    \/ \E s \in Shortcuts, r \in RtolArgs, a \in AtolArgs : SetAlgoOptions(s, r, a)
    \/ \E r \in RtolArgs, a \in AtolArgs : AlgoOptions(r, a)
    \/ \E r \in RtolArgs, a \in AtolArgs : With(r, a)
    \/ EnterHeld
    \/ Exit
    \/ ExitOnError
    \/ Raise
    \/ Catch
    \/ \E p \in Pairs : CallIsClose(p)

Spec == Init /\ [][Next]_vars

\* Reads through the _config package next to the operations that assign the
\* globals: permanent sets, block entries and block exits.
NextFacade ==
    \/ \E n \in FacadeNames : ReadFacade(n)
    \/ \E s \in Shortcuts, r \in RtolArgs, a \in AtolArgs : SetAlgoOptions(s, r, a)
    \/ \E r \in RtolArgs, a \in AtolArgs : With(r, a)
    \/ Exit

SpecFacade == Init /\ [][NextFacade]_vars

\* The display setter next to the tolerance operations, with and without
\* matplotlib; tolerance blocks are not nested here.
NextDisplay ==
    \/ \E c \in Selectors : SetDisplayOptions(c)
    \/ \E s \in Shortcuts, r \in RtolArgs, a \in AtolArgs : SetAlgoOptions(s, r, a)
    \/ \E r \in RtolArgs, a \in AtolArgs : Depth = 0 /\ With(r, a)
    \/ Exit

SpecDisplay == InitAnyEnvironment /\ [][NextDisplay]_vars

\* divide on every pair of operands, at either state of ATOL.
NextDivide ==
    \/ \E n \in Operands, d \in Operands : Divide(n, d)
    \/ \E a \in AtolValues : SetAlgoOptions(NoShortcut, None, a)
    \/ SetAlgoOptions([kind |-> "str", text |-> "default"], None, None)

SpecDivide == Init /\ [][NextDivide]_vars

\* ------------------------------------------------------------------ claims

Default == [kind |-> "str", text |-> "default"]

\* The globals are what they were when the block just left was entered.
RestoredToEntry == RTOL = last.ent_RTOL /\ ATOL = last.ent_ATOL

\* C1: a block entered and left with no other tolerance operation in its
\* body (no permanent set, no further scope) leaves RTOL and ATOL exactly as
\* they were at its entry, whatever overrides it was opened with.
C1_SingleScopeRoundTrip ==
    (last.op = "exit" /\ ~last.nested /\ ~last.setin) => RestoredToEntry

\* C1 happens: an outermost block that overrode RTOL is left on the normal
\* path, its body having done nothing, and the exit put RTOL back.
C1_Witness ==
    /\ last.op = "exit" /\ last.depth = 1 /\ ~last.on_err
    /\ ~last.nested /\ ~last.setin
    /\ ~last.kept_RTOL
    /\ RestoredToEntry

\* C2: the exit of a block entered inside another block's body puts the
\* globals back to what they were just before that inner entry; the inner
\* block is the innermost one, no block having been entered in its own body.
C2_InnerExitRestoresEnclosing ==
    (last.op = "exit" /\ last.depth >= 2 /\ ~last.nested) => RestoredToEntry

\* C2 happens: an inner block is left, the globals are back at what the
\* enclosing block had applied, and that is not what held before the
\* enclosing block.
C2_Witness ==
    /\ last.op = "exit" /\ last.depth = 2 /\ ~last.nested
    /\ ~(last.kept_RTOL /\ last.kept_ATOL)
    /\ RestoredToEntry
    /\ Depth = 1
    /\ <<RTOL, ATOL>> # <<stack[1].ent_RTOL, stack[1].ent_ATOL>>

\* C3: every exit of every properly nested block, the outermost included,
\* puts the globals back to what they were at that block's own entry.
C3_EveryExitRestoresOwnEntry ==
    last.op = "exit" => RestoredToEntry

\* C4: set_algo_options('default', ...) raises nothing and leaves each
\* tolerance at its keyword value if one was given and at its default
\* (1E-5, 1E-8) otherwise.
C4_DefaultShortcut ==
    (last.op = "set_algo_options" /\ last.shortcut = Default) =>
        /\ last.raised = "none"
        /\ RTOL = (IF last.rtol # None THEN last.rtol ELSE DefaultRTOL)
        /\ ATOL = (IF last.atol # None THEN last.atol ELSE DefaultATOL)

\* C4 happens: 'default' with atol given and rtol absent, from a store whose
\* RTOL was not the default.
C4_Witness ==
    /\ last.op = "set_algo_options" /\ last.shortcut = Default
    /\ last.rtol = None /\ last.atol # None
    /\ ~last.kept_RTOL
    /\ RTOL = DefaultRTOL /\ ATOL = last.atol

\* C5: set_algo_options without a shortcut stores each keyword value given
\* and leaves unchanged each tolerance whose keyword is absent.
C5_SetterFrame ==
    (last.op = "set_algo_options" /\ last.shortcut = NoShortcut) =>
        /\ last.raised = "none"
        /\ IF last.rtol = None THEN last.kept_RTOL ELSE RTOL = last.rtol
        /\ IF last.atol = None THEN last.kept_ATOL ELSE ATOL = last.atol

\* C5 happens: only rtol is given, RTOL changes, and ATOL keeps a value that
\* is not its default.
C5_Witness ==
    /\ last.op = "set_algo_options" /\ last.shortcut = NoShortcut
    /\ last.rtol # None /\ last.atol = None
    /\ ~last.kept_RTOL /\ last.kept_ATOL
    /\ ATOL # DefaultATOL

\* C6: set_algo_options with a shortcut that is supplied and is not the
\* str 'default' raises ValueError.
C6_InvalidShortcutRejected ==
    (last.op = "set_algo_options" /\ last.shortcut # NoShortcut
        /\ last.shortcut # Default) => last.raised = "ValueError"

\* C7: set_algo_options with a first argument that is neither absent nor a
\* str raises ValueError and leaves RTOL and ATOL as they were, keyword
\* values or not.
C7_NonTextShortcut ==
    (last.op = "set_algo_options" /\ last.shortcut.kind \notin {"none", "str"}) =>
        /\ last.raised = "ValueError"
        /\ last.kept_RTOL /\ last.kept_ATOL

\* C7 happens: the rejected call carried an rtol that is not the stored one.
C7_Witness ==
    /\ last.op = "set_algo_options" /\ last.shortcut.kind = "int"
    /\ last.raised = "ValueError"
    /\ last.rtol # None /\ last.rtol # RTOL
    /\ last.atol # None /\ last.atol # ATOL

\* C8: when an exception leaves a block's body, __exit__ still assigns the
\* globals from the recorded snapshot, which for a block with no further
\* block entered in its body is the state at its own entry, and the
\* exception is still propagating afterwards.
C8_ExitOnError ==
    (last.op = "exit" /\ last.on_err) =>
        /\ err
        /\ RTOL = cm.prev_rtol /\ ATOL = cm.prev_atol
        /\ ~last.nested => RestoredToEntry

\* C8 happens: the body raised, the exit changed a global back to its entry
\* value, and the exception is on its way to the caller.
C8_Witness ==
    /\ last.op = "exit" /\ last.on_err /\ ~last.nested
    /\ ~last.kept_ATOL
    /\ RestoredToEntry
    /\ err /\ Depth = 0

\* C9: right after `with algo_options(rtol=x, atol=y):` reaches its body
\* (or `with h:` does, h configured by the latest algo_options call), RTOL is
\* x if x was given and is unchanged otherwise, and ATOL likewise with y.
C9_ScopeEntryEffect ==
    (last.op = "with" \/ (last.op = "enter" /\ ~last.stale)) =>
        /\ IF last.rtol = None THEN last.kept_RTOL ELSE RTOL = last.rtol
        /\ IF last.atol = None THEN last.kept_ATOL ELSE ATOL = last.atol

\* C9 happens: a block opened with atol alone changes ATOL and leaves a
\* non-default RTOL alone.
C9_Witness ==
    /\ last.op = "with"
    /\ last.rtol = None /\ last.atol # None
    /\ last.kept_RTOL /\ ~last.kept_ATOL
    /\ RTOL # DefaultRTOL /\ ATOL = last.atol

\* |a - b| <= atol + rtol * |b| for a, b in units of 1E-5 and rtol, atol in
\* units of 1E-8: either atol alone covers the distance, or what is left of
\* the distance, in units of 1E-13, is at most rtol * |b|.
Within(rtol, atol, a, b) ==
    \/ Abs(a - b) * 1000 <= atol
    \/ /\ Abs(a - b) * 1000 > atol
       /\ (Abs(a - b) * 1000 - atol) * 100000 <= rtol * Abs(b)

\* C10: is_close(a, b) is true exactly when |a - b| <= ATOL + RTOL * |b| with
\* the globals as they are at the call; called straight after a block with no
\* further block in its body was left, that is the state at the block's entry.
C10_IsCloseFollowsStore ==
    last.op = "is_close" =>
        /\ last.ret = Within(RTOL, ATOL, last.a, last.b)
        /\ (last.after_exit /\ ~last.nested) =>
               last.ret = Within(last.ent_RTOL, last.ent_ATOL, last.a, last.b)

\* C10 happens: 0.1 and 0.10001 compare as not close straight after the exit
\* of a block that had loosened atol to 1E-3.
C10_Witness ==
    /\ last.op = "is_close" /\ last.after_exit /\ ~last.nested
    /\ last.a = 10000 /\ last.b = 10001
    /\ ~last.ret
    /\ cm.atol = 100000 /\ cm.prev_atol = DefaultATOL
    /\ RTOL = DefaultRTOL /\ ATOL = DefaultATOL

C12_HandleKeepsItsOverrides ==
    last.op = "enter" =>
        /\ IF last.rtol = None THEN last.kept_RTOL ELSE RTOL = last.rtol
        /\ IF last.atol = None THEN last.kept_ATOL ELSE ATOL = last.atol

\* C13: `with h:` run a second time, h not reconfigured in between, applies
\* the same overrides as the first time, leaving the globals as they were
\* inside the first block, and the exit that follows puts the globals back to
\* what they were at that second entry.
C13_HandleReentry ==
    /\ (last.op = "enter" /\ last.again) =>
           (RTOL = last.in_RTOL /\ ATOL = last.in_ATOL)
    /\ (last.op = "exit" /\ last.again) => RestoredToEntry

\* C13 happens: the second `with h:` block is left and its exit changed RTOL
\* back to what it was at the second entry.
C13_Witness ==
    /\ last.op = "exit" /\ last.again
    /\ ~last.kept_RTOL
    /\ RestoredToEntry
    /\ held.rtol # None /\ held.rtol = cm.rtol /\ last.in_RTOL = held.rtol

\* C18: what the exit restores is what the globals held when the block was
\* entered, not when algo_options was called: with a set_algo_options call
\* that changed a global between h = algo_options(...) and `with h:`, the
\* exit leaves the globals at the changed values.
C18_EntryTimeSnapshot ==
    (last.op = "exit" /\ last.moved) => RestoredToEntry

\* C18 happens: after h = algo_options(...), set_algo_options moved ATOL off
\* its default, `with h:` overrode RTOL, and the exit put RTOL back and left
\* ATOL at the moved value.
C18_Witness ==
    /\ last.op = "exit" /\ last.moved
    /\ ~last.kept_RTOL
    /\ RestoredToEntry
    /\ ATOL # DefaultATOL /\ RTOL = DefaultRTOL /\ Depth = 0

\* C19: a set_algo_options call made in the body of a block does not outlast
\* the block: the exit assigns both globals from the snapshot, which for a
\* block with no further block entered in its body is the state at its entry.
C19_SetInScopeIsLost ==
    (last.op = "exit" /\ last.setin) =>
        /\ RTOL = cm.prev_rtol /\ ATOL = cm.prev_atol
        /\ ~last.nested => RestoredToEntry

\* C19 happens: a block that overrode nothing is left, and its exit changes
\* RTOL back to the entry value, undoing the set made in its body.
C19_Witness ==
    /\ last.op = "exit" /\ last.setin /\ ~last.nested
    /\ held = NoHandle /\ cm.rtol = None /\ cm.atol = None
    /\ ~last.kept_RTOL
    /\ RestoredToEntry

\* The palette constant the documentation gives for a selector.
PaletteOf(selector) ==
    CASE selector = "matplotlib"        -> CLR_MATPLOTLIB
      [] selector = "matplotlib_legacy" -> CLR_MATPLOTLIB_LEGACY
      [] selector = "tableau_10"        -> CLR_TABLEAU_10
      [] OTHER                          -> InitialCycle

Recognised == {"matplotlib", "matplotlib_legacy", "tableau_10"}

\* C14: set_display_options without a selector leaves the colour cycle
\* alone; with one of the three palette names, matplotlib being available,
\* the cycle becomes exactly that palette; so at any moment the cycle is the
\* palette of the latest call that installed one.
C14_DisplayOptions ==
    /\ rcParams = PaletteOf(named)
    /\ last.op = "set_display_options" =>
           /\ last.selector = NoPalette =>
                  (last.raised = "none" /\ last.kept_cycle)
           /\ (last.selector \in Recognised /\ mpl) =>
                  (last.raised = "none" /\ rcParams = PaletteOf(last.selector)
                      /\ named = last.selector)

\* C14 happens: a call without a selector has left in place the tableau_10
\* palette an earlier call installed.
C14_Witness ==
    /\ last.op = "set_display_options" /\ last.selector = NoPalette
    /\ last.kept_cycle
    /\ named = "tableau_10" /\ rcParams = CLR_TABLEAU_10
    /\ Len(rcParams) = 10 /\ rcParams[1] = "#4E79A7"

\* C15: set_display_options with a name that is none of the three palettes
\* raises an error and leaves the colour cycle as it was.
C15_UnknownPaletteRejected ==
    (last.op = "set_display_options"
        /\ last.selector \notin Recognised \cup {NoPalette}) =>
        /\ last.raised # "none"
        /\ last.kept_cycle

\* C15 happens: with matplotlib available and matplotlib_legacy installed,
\* 'viridis' is rejected with KeyError and the cycle is still that palette.
C15_Witness ==
    /\ last.op = "set_display_options" /\ last.selector = "viridis"
    /\ mpl /\ last.raised = "KeyError"
    /\ named = "matplotlib_legacy" /\ rcParams = CLR_MATPLOTLIB_LEGACY

\* C16: without matplotlib, set_display_options with a selector raises
\* ImportWarning, never the import's own error, while the call without a
\* selector and the tolerance operations go through as they do with it.
C16_MissingMatplotlib ==
    ~mpl =>
        /\ (last.op = "set_display_options" /\ last.selector # NoPalette) =>
               (last.raised = "ImportWarning" /\ last.kept_cycle)
        /\ (last.op = "set_display_options" /\ last.selector = NoPalette) =>
               last.raised = "none"
        /\ (last.op = "set_algo_options" /\ last.shortcut.kind # "int") =>
               last.raised = "none"
        /\ last.op \in {"with", "exit"} => last.raised = "none"
        /\ rcParams = InitialCycle

\* C16 happens: without matplotlib, a call naming tableau_10 has raised
\* ImportWarning while ATOL stands at a value set_algo_options gave it.
C16_Witness ==
    /\ ~mpl
    /\ last.op = "set_display_options" /\ last.selector = "tableau_10"
    /\ last.raised = "ImportWarning"
    /\ ATOL # DefaultATOL /\ Depth = 0

\* C17: divide(n, 0) raises ValueError for every n, and for every d other
\* than 0 divide(n, d) returns n / d: the value q with q * d = n.
C17_Divide ==
    last.op = "divide" =>
        /\ last.d = 0 => last.raised = "ValueError"
        /\ last.d # 0 =>
               /\ last.raised = "none"
               /\ last.den > 0
               /\ last.num * last.d = last.n * last.den
        /\ (last.n = 4 /\ last.d = 2) => (last.num = 2 /\ last.den = 1)

\* C17 happens: divide(4, 2) has returned 2.
C17_Witness ==
    /\ last.op = "divide" /\ last.n = 4 /\ last.d = 2
    /\ last.raised = "none" /\ last.num = 2 /\ last.den = 1

====
